---- MODULE Spec2Model ----
(***************************************************************************)
(* Folder emulation over a flat object store: the service layer of         *)
(* gcs_jupyter_plugin (services/gcs.py, class Client).                     *)
(*                                                                         *)
(* A bucket is a finite map from object names to object data.  Object      *)
(* names are sequences of one-character strings, so that prefixes,         *)
(* trailing slashes and the lexicographic order of a listing are computed  *)
(* and not assumed.  Every service method is an operator from the store    *)
(* before the call to the store after it and the returned dictionary; a    *)
(* storage call that raises is selected by the `fault` argument, which     *)
(* names the call site.                                                    *)
(***************************************************************************)
EXTENDS Integers, Sequences, FiniteSets, TLC

VARIABLES store, prev, last, updated, req

vars == <<store, prev, last, updated, req>>

\* ------------------------------------------------------------------ bounds
MaxLen == 4
MaxBlobs == 2
MaxTime == 2

\* ------------------------------------------------------------ value spaces
Chars == {"a", "/"}

Bucket == "b1"

NoFault == "none"

\* Object names used by the clients of the model: non-empty, at most MaxLen
\* characters, first character a letter.
Names == {n \in UNION {[1..k -> Chars] : k \in 1..MaxLen} : n[1] = "a"}

\* Path arguments: every name, the empty path and the bare delimiter.
Paths == Names \cup {<<>>, <<"/">>}

\* The names used by the requests during which a storage call fails: a file,
\* a folder marker, a sibling and a child.
FaultNames == {<<"a">>, <<"a", "/">>, <<"a", "a">>, <<"a", "/", "a">>}

\* Text contents: the empty string and the two-character string "{}".
Texts == {<<>>, <<"{", "}">>}

Str(t) == [kind |-> "str", val |-> t]

\* The empty Python dict, as the `content` argument of save_content.
EmptyDict == [kind |-> "dict", val |-> <<>>]

ContentInputs == {Str(t) : t \in Texts} \cup {EmptyDict}

EmptyStore == [k \in {} |-> <<>>]

\* The `updated` attribute of a blob: a time, or None.
Times == 1..MaxTime

None == [set |-> FALSE]

At(t) == [set |-> TRUE, t |-> t]

TimesOrNone == {At(t) : t \in Times} \cup {None}

\* The time the storage provider stamps on the objects written by the requests
\* of one run.
ServerTime == At(CHOOSE t \in Times : \A x \in Times : t <= x)

Stamped(s) == [k \in DOMAIN s |-> ServerTime]

\* datetime.isoformat()
isoformat(d) == <<"iso", d.t>>

\* ---------------------------------------------------------- string helpers
Ord(c) == IF c = "/" THEN 47 ELSE 97

\* Lexicographic order of object names (the order of a listing).
Less(s, t) ==
    \E i \in 1..Len(t) :
        /\ \A j \in 1..(i - 1) : j <= Len(s) /\ s[j] = t[j]
        /\ (i > Len(s) \/ Ord(s[i]) < Ord(t[i]))

StartsWith(k, p) == Len(p) <= Len(k) /\ SubSeq(k, 1, Len(p)) = p

EndsWithSlash(n) == Len(n) > 0 /\ n[Len(n)] = "/"

\* name[:-1] if name.endswith('/') else name
StripSlash(n) == IF EndsWithSlash(n) THEN SubSeq(n, 1, Len(n) - 1) ELSE n

WithSlash(p) == p \o <<"/">>

\* json.dumps of a dict
json_dumps(c) == <<"{">> \o c.val \o <<"}">>

\* ------------------------------------------------------ storage primitives
exists(s, name) == name \in DOMAIN s

upload_from_string(s, name, data) ==
    [k \in DOMAIN s \cup {name} |-> IF k = name THEN data ELSE s[k]]

delete(s, name) == [k \in DOMAIN s \ {name} |-> s[k]]

RECURSIVE SortNames(_)
SortNames(S) ==
    IF S = {} THEN <<>>
    ELSE LET m == CHOOSE x \in S : \A y \in S \ {x} : Less(x, y)
         IN  <<m>> \o SortNames(S \ {m})

\* list_blobs(prefix=...) without delimiter: every name with the prefix, in
\* lexicographic order.
list_blobs(s, prefix) ==
    SortNames({k \in DOMAIN s : StartsWith(k, prefix)})

\* Bucket.rename_blob: copy to the new name, then delete the source unless
\* the two names are equal.
rename_blob(s, name, new_name) ==
    LET copied == upload_from_string(s, new_name, s[name])
    IN  IF name = new_name THEN copied ELSE delete(copied, name)

\* ------------------------------------------------------------ return shape
\* A method returns r.  `raised` tells that a storage call raised inside the
\* method, `propagated` that the exception left the method.
Ret(s, r) == [store |-> s, result |-> r, raised |-> FALSE, propagated |-> FALSE]

\* Mutant: the method has no except clause and the exception reaches the caller.
Caught_Propagates(s, r) ==
    [store |-> s, result |-> [exception |-> "str(e)"], raised |-> TRUE,
     propagated |-> TRUE]

\* except Exception as e: return r
Caught(s, r) == [store |-> s, result |-> r, raised |-> TRUE, propagated |-> FALSE]

\* except Exception as e: return {"error": str(e), "status": 500}
Raise500(s) == Caught(s, [error |-> "str(e)", status |-> 500])

\* ------------------------------------------------------------- save_content
SaveFaults == {NoFault, "exists@236", "upload@246"}

SaveText(content) == IF content.kind = "dict" THEN json_dumps(content) ELSE content.val

\* Mutant: the upload flag is read inverted.
SaveConflict_FlagInverted(s, name, uploadFlag) == exists(s, name) /\ ~uploadFlag

\* Mutant: the existence check rejects a save as well as an upload.
SaveConflict_FlagIgnored(s, name, uploadFlag) == exists(s, name)

SaveConflict(s, name, uploadFlag) == exists(s, name) /\ uploadFlag

save_content(s, bucket_name, destination_blob_name, content, uploadFlag, fault) ==
    LET text == SaveText(content) IN
    IF fault = "exists@236" THEN Raise500(s)
    ELSE IF SaveConflict(s, destination_blob_name, uploadFlag)
    THEN Ret(s, [name |-> destination_blob_name, bucket |-> bucket_name,
                 exists |-> TRUE, success |-> FALSE,
                 error |-> "A file with name {name} already exists in the destination.",
                 status |-> 409])
    ELSE IF fault = "upload@246" THEN Raise500(s)
    ELSE Ret(upload_from_string(s, destination_blob_name, text),
             [name |-> destination_blob_name, bucket |-> bucket_name,
              size |-> Len(text), contentType |-> "media", success |-> TRUE])

\* ------------------------------------------------------------ create_folder
CreateFaults == {NoFault, "upload@186"}

\* Mutant: the parent path is dropped.
new_folder_path_NoParent(path, folder_name) == folder_name \o <<"/">>

new_folder_path(path, folder_name) ==
    IF path = <<>> THEN folder_name \o <<"/">>
    ELSE path \o <<"/">> \o folder_name \o <<"/">>

create_folder(s, bucket, path, folder_name, fault) ==
    LET p == new_folder_path(path, folder_name) IN
    IF fault = "upload@186"
    THEN Caught(s, [error |-> "str(e)"])
    ELSE Ret(upload_from_string(s, p, <<>>),
             [name |-> p, bucket |-> bucket, id |-> <<bucket, p>>,
              kind |-> "storage#object", size |-> "0"])

\* -------------------------------------------------------------- delete_file
DeleteFaults == {NoFault, "exists@293", "list@295", "exists@316", "exists@320",
                 "delete@325"}

\* Mutant: only the empty path is taken for the bucket root.
IsRoot_EmptyOnly(path) == path = <<>>

IsRoot(path) == path = <<>> \/ path = <<"/">>

\* Mutant: the marker is compared with its trailing slash and counts as a child.
RECURSIVE DeleteScan_NoStrip(_, _, _)
DeleteScan_NoStrip(blobs, path, acc) ==
    IF blobs = <<>> THEN acc
    ELSE LET iblob == Head(blobs)
             seen  == [blob |-> iblob, isFile |-> FALSE, blob_count |-> acc.blob_count]
         IN  IF iblob # path
             THEN [seen EXCEPT !.blob_count = @ + 1]
             ELSE DeleteScan_NoStrip(Tail(blobs), path, seen)

\* Lines 298-307: the loop over the listing under path + "/".
RECURSIVE DeleteScan(_, _, _)
DeleteScan(blobs, path, acc) ==
    IF blobs = <<>> THEN acc
    ELSE LET iblob == Head(blobs)
             seen  == [blob |-> iblob, isFile |-> FALSE, blob_count |-> acc.blob_count]
         IN  IF StripSlash(iblob) # path
             THEN [seen EXCEPT !.blob_count = @ + 1]
             ELSE DeleteScan(Tail(blobs), path, seen)

\* Lines 289-307: the blob the method ends up holding, and the child count.
DeleteResolve(s, path) ==
    LET start == [blob |-> path, isFile |-> TRUE, blob_count |-> 0]
    IN  IF exists(s, path) THEN start
        ELSE DeleteScan(list_blobs(s, WithSlash(path)), path, start)

\* Lines 323-329.
DeleteBlob(s, name, fault) ==
    IF fault = "delete@325" THEN Raise500(s)
    ELSE Ret(delete(s, name), [success |-> TRUE])

delete_file(s, bucket, path, fault) ==
    IF IsRoot(path)
    THEN Ret(s, [error |-> "Deleting Bucket is not allowed.", status |-> 409])
    ELSE IF fault = "exists@293" THEN Raise500(s)
    ELSE IF ~exists(s, path) /\ fault = "list@295" THEN Raise500(s)
    ELSE LET r == DeleteResolve(s, path) IN
         IF r.blob_count > 0
         THEN Ret(s, [error |-> "Non-Empty folder cannot be deleted.", status |-> 409])
         ELSE IF fault = "exists@316" THEN Raise500(s)
         ELSE IF exists(s, r.blob) THEN DeleteBlob(s, r.blob, fault)
         ELSE IF fault = "exists@320" THEN Raise500(s)
         ELSE IF ~exists(s, WithSlash(path))
         THEN Ret(s, [error |-> "File/Folder not found.", status |-> 404])
         ELSE DeleteBlob(s, WithSlash(path), fault)

\* -------------------------------------------------------------- rename_file
RenameFaults == {NoFault, "exists@351", "list@354", "exists@367", "exists@383",
                 "list@389", "rename_blob.copy@396", "rename_blob.delete@396"}

\* Line 354: the prefix of the listing that looks for a folder.
RenamePrefix(blob_name) ==
    IF EndsWithSlash(blob_name) THEN blob_name ELSE WithSlash(blob_name)

\* Lines 357-366: the loop over the listing; it stops after the second child.
RECURSIVE RenameScan(_, _, _)
RenameScan(blobs, blob_name, acc) ==
    IF blobs = <<>> THEN acc
    ELSE LET iblob == Head(blobs)
             child == StripSlash(iblob) # blob_name
             seen  == [blob |-> iblob,
                       blob_count |-> IF child THEN acc.blob_count + 1
                                      ELSE acc.blob_count]
         IN  IF child /\ seen.blob_count > 1 THEN seen
             ELSE RenameScan(Tail(blobs), blob_name, seen)

\* Line 367: only the zero-byte marker was found.
RenameIsEmptyFolder(s, r, blob_name) ==
    exists(s, r.blob) /\ r.blob_count = 0 /\ StripSlash(r.blob) = blob_name

\* Mutant: a folder destination is checked by its exact key only.
RenameDestTaken_ExactKeyOnly(s, isFile, new_name) == exists(s, new_name)

\* Lines 380-392: the availability check of the new name.
RenameDestTaken(s, isFile, new_name) ==
    IF isFile THEN exists(s, new_name)
    ELSE list_blobs(s, WithSlash(new_name)) # <<>>

\* Mutant: the marker of a folder is renamed without the trailing slash.
RenameTarget_NoSlash(isFile, new_name) == new_name

\* Lines 395-398: the name the blob is renamed to.
RenameTarget(isFile, new_name) == IF isFile THEN new_name ELSE WithSlash(new_name)

\* Mutant: the success payload carries no status, as that of delete_file.
RenameSuccess_NoStatus(bucket_name, new_blob) ==
    [name |-> new_blob, bucket |-> bucket_name, success |-> TRUE]

\* Lines 400-402: the payload built from the blob rename_blob returned.
RenameSuccess(bucket_name, new_blob) ==
    [name |-> new_blob, bucket |-> bucket_name, success |-> TRUE, status |-> 200]

\* Lines 379-402, for the blob the source check resolved.
RenameTo(s, bucket_name, blob, isFile, new_name, fault) ==
    IF isFile /\ fault = "exists@383" THEN Raise500(s)
    ELSE IF ~isFile /\ fault = "list@389" THEN Raise500(s)
    ELSE IF RenameDestTaken(s, isFile, new_name)
    THEN Ret(s, [error |-> IF isFile
                           THEN "A file with name {name} already exists in the destination."
                           ELSE "A folder with name {name} already exists in the destination.",
                 status |-> 409])
    ELSE IF fault = "rename_blob.copy@396" THEN Raise500(s)
    ELSE IF fault = "rename_blob.delete@396" /\ blob # RenameTarget(isFile, new_name)
    THEN Raise500(upload_from_string(s, RenameTarget(isFile, new_name), s[blob]))
    ELSE Ret(rename_blob(s, blob, RenameTarget(isFile, new_name)),
             RenameSuccess(bucket_name, RenameTarget(isFile, new_name)))

rename_file(s, bucket_name, blob_name, new_name, fault) ==
    IF fault = "exists@351" THEN Raise500(s)
    ELSE IF exists(s, blob_name)
    THEN RenameTo(s, bucket_name, blob_name, TRUE, new_name, fault)
    ELSE IF fault = "list@354" THEN Raise500(s)
    ELSE LET r == RenameScan(list_blobs(s, RenamePrefix(blob_name)), blob_name,
                             [blob |-> blob_name, blob_count |-> 0])
         IN  IF fault = "exists@367" THEN Raise500(s)
             ELSE IF RenameIsEmptyFolder(s, r, blob_name)
             THEN RenameTo(s, bucket_name, r.blob, FALSE, new_name, fault)
             ELSE IF r.blob_count > 0
             THEN Ret(s, [error |-> "Non-Empty folder cannot be renamed.",
                          status |-> 409])
             ELSE Ret(s, [error |-> "{blob_name} not found", status |-> 404])

\* --------------------------------------------------------------- list_files
ListFaults == {NoFault, "list@89", "list@96"}

Remainder(k, prefix) == SubSeq(k, Len(prefix) + 1, Len(k))

HasSlash(n) == \E i \in 1..Len(n) : n[i] = "/"

\* The part of n up to and including its first delimiter.
FirstSegment(n) ==
    SubSeq(n, 1, CHOOSE i \in 1..Len(n) : n[i] = "/" /\ \A j \in 1..(i - 1) : n[j] # "/")

\* list_blobs(prefix=..., delimiter="/"): the objects directly under the prefix.
list_blobs_items(s, prefix) ==
    SortNames({k \in DOMAIN s :
                  StartsWith(k, prefix) /\ ~HasSlash(Remainder(k, prefix))})

\* list_blobs(prefix=..., delimiter="/").prefixes: the common prefixes.
list_blobs_prefixes(s, prefix) ==
    {prefix \o FirstSegment(Remainder(k, prefix)) :
        k \in {n \in DOMAIN s : StartsWith(n, prefix) /\ HasSlash(Remainder(n, prefix))}}

\* Mutant: the marker of the listed folder is not filtered.
ListSuppressed_Never(s, name, prefix) == FALSE

\* Line 122: the query's own zero-byte marker is left out of "files".
ListSuppressed(s, name, prefix) == name = prefix /\ Len(s[name]) = 0

\* x.isoformat() if x else ""
IsoOrEmpty(x) == IF x.set THEN isoformat(x) ELSE <<>>

\* Lines 121-133.
RECURSIVE ListFileEntries(_, _, _, _)
ListFileEntries(s, u, files, prefix) ==
    IF files = <<>> THEN <<>>
    ELSE LET file == Head(files)
             rest == ListFileEntries(s, u, Tail(files), prefix)
         IN  IF ~ListSuppressed(s, file, prefix)
             THEN <<[name |-> file, updated |-> IsoOrEmpty(u[file]),
                     size |-> Len(s[file]), content_type |-> "media"]>> \o rest
             ELSE rest

\* Lines 94-104: the loop that groups the blobs under the prefix by their
\* first path segment and keeps the latest `updated` of each group in the
\* dictionary d.  Comparing the stored None with a time raises TypeError.
RECURSIVE LatestUpdated(_, _, _, _, _)
LatestUpdated(blobs, u, prefix, prefixes, d) ==
    IF blobs = <<>> THEN [raised |-> FALSE, val |-> d]
    ELSE LET blob          == Head(blobs)
             relative_name == Remainder(blob, prefix)
             subdirectory  == prefix \o FirstSegment(relative_name)
             skip          == LatestUpdated(Tail(blobs), u, prefix, prefixes, d)
             put           == LatestUpdated(Tail(blobs), u, prefix, prefixes,
                                  [x \in DOMAIN d \cup {subdirectory} |->
                                      IF x = subdirectory THEN u[blob] ELSE d[x]])
         IN  IF ~HasSlash(relative_name) THEN skip
             ELSE IF subdirectory \notin prefixes THEN skip
             ELSE IF subdirectory \notin DOMAIN d THEN put
             ELSE IF ~u[blob].set THEN skip
             ELSE IF ~d[subdirectory].set THEN [raised |-> TRUE, val |-> d]
             ELSE IF d[subdirectory].t < u[blob].t THEN put
             ELSE skip

\* Lines 107-118: one entry for each common prefix.
ListFolderEntries(prefixes, d) ==
    {[name |-> pref,
      updatedAt |-> IF pref \in DOMAIN d THEN IsoOrEmpty(d[pref]) ELSE <<>>] :
        pref \in prefixes}

\* Mutant: the failure is reported as an error dictionary, as list_buckets does.
ListFailure_ErrorDict(s) == Caught(s, [error |-> "str(e)"])

\* Lines 139-141: except Exception: return []
ListFailure(s) == Caught(s, <<>>)

\* s is the bucket and u the `updated` attribute of its blobs.
list_files(s, u, bucket, prefix, fault) ==
    LET prefixes == list_blobs_prefixes(s, prefix)
        latest   == LatestUpdated(list_blobs(s, prefix), u, prefix, prefixes,
                                  EmptyStore)
    IN  IF fault = "list@89" THEN ListFailure(s)
        ELSE IF prefixes # {} /\ fault = "list@96" THEN ListFailure(s)
        ELSE IF prefixes # {} /\ latest.raised THEN ListFailure(s)
        ELSE Ret(s, [prefixes |-> ListFolderEntries(prefixes, latest.val),
                     files |-> ListFileEntries(s, u, list_blobs_items(s, prefix),
                                               prefix)])

\* ----------------------------------------------------------------- get_file
GetFaults == {NoFault, "download@153", "b64encode@155", "download@160",
              "download@163"}

Formats == {"base64", "json", "text"}

Bytes(t) == [kind |-> "bytes", val |-> t]

\* base64.b64encode(...).decode('utf-8') of the contents of the model.
b64encode(t) ==
    IF t = <<>> THEN <<>>
    ELSE IF t = <<"{", "}">> THEN <<"e", "3", "0", "=">>
    ELSE <<"b", "a", "s", "e", "6", "4">> \o t

\* blob.download_as_bytes() / blob.download_as_text() raises when the call
\* fails or the object does not exist.
DownloadRaises(s, name, fault, site) == fault = site \/ ~exists(s, name)

\* Lines 165-167: except Exception: return []
GetFailure(s) == Caught(s, <<>>)

get_file(s, bucket_name, file_path, format, fault) ==
    IF format = "base64"
    THEN IF DownloadRaises(s, file_path, fault, "download@153") THEN GetFailure(s)
         ELSE IF fault = "b64encode@155" THEN Caught(s, <<>>)
         ELSE Ret(s, Str(b64encode(s[file_path])))
    ELSE IF format = "json"
    THEN IF DownloadRaises(s, file_path, fault, "download@160") THEN GetFailure(s)
         ELSE Ret(s, Str(s[file_path]))
    ELSE IF DownloadRaises(s, file_path, fault, "download@163") THEN GetFailure(s)
         ELSE Ret(s, Str(s[file_path]))

\* ------------------------------------------------------------ download_file
DownloadFaults == {NoFault, "download@418"}

\* Mutant: the blob is removed once its bytes are fetched.
download_file_Consumes(s, bucket_name, file_path, name, format, fault) ==
    IF DownloadRaises(s, file_path, fault, "download@418") THEN Caught(s, <<>>)
    ELSE Ret(delete(s, file_path), Bytes(s[file_path]))

download_file(s, bucket_name, file_path, name, format, fault) ==
    IF DownloadRaises(s, file_path, fault, "download@418") THEN Caught(s, <<>>)
    ELSE Ret(s, Bytes(s[file_path]))

\* -------------------------------------------------------------- controllers
\* A request parameter is absent or given with a value.
Absent == [given |-> FALSE]

Given(v) == [given |-> TRUE, val |-> v]

\* Python truthiness of a parameter: present and not the empty string.
TruthyBucket(p) == p.given /\ p.val # ""

TruthyName(p) == p.given /\ p.val # <<>>

\* Client.list_buckets
ListBucketsFaults == {NoFault, "list_buckets@61"}

\* The name of the bucket of the project, letter by letter.
BucketLetters == <<"b", "1">>

\* The `prefix` argument: None, or a text.
BucketPrefixes == {Absent, Given(<<>>), Given(<<"b">>), Given(<<"a">>)}

\* client.list_buckets(prefix=prefix): the buckets whose name has the prefix.
BucketListed(prefix) == ~prefix.given \/ StartsWith(BucketLetters, prefix.val)

list_buckets(s, prefix, fault) ==
    IF fault = "list_buckets@61" THEN Caught(s, [error |-> "str(e)"])
    ELSE IF BucketListed(prefix)
    THEN Ret(s, <<[name |-> Bucket, updated |-> IsoOrEmpty(ServerTime)]>>)
    ELSE Ret(s, <<>>)

\* The handler ends: HTTP status, body passed to self.finish, number of
\* self.finish calls.
Http(s, status, body, raised) ==
    [store |-> s, status |-> status, result |-> body, responses |-> 1,
     raised |-> raised, propagated |-> FALSE]

\* The outermost handler: except Exception as e: set_status(500); finish({"error": str(e)})
Http500(s, raised) == Http(s, 500, [error |-> "str(e)"], raised)

CreateFolderPostFaults == CreateFaults \cup {"credentials@96"}

\* Lines 89-92 of the controller.
CreateFolderMissing(bucket, folder_name) ==
    ~TruthyBucket(bucket) \/ ~TruthyName(folder_name)

\* CreateFolderController.post; body.valid tells whether json.loads accepts
\* the request body.
CreateFolderController_post(s, body, fault) ==
    IF ~body.valid THEN Http500(s, FALSE)
    ELSE LET bucket      == body.bucket
             path        == IF body.path.given THEN body.path.val ELSE <<>>
             folder_name == body.folderName
         IN  IF CreateFolderMissing(bucket, folder_name)
             THEN Http(s, 400, [error |-> "Missing required parameters."], FALSE)
             ELSE IF fault = "credentials@96" THEN Http500(s, FALSE)
             ELSE LET o == create_folder(s, bucket.val, path, folder_name.val, fault)
                  IN  IF o.propagated THEN Http500(o.store, o.raised)
                      ELSE Http(o.store, 200, o.result, o.raised)

SaveFilePostFaults == SaveFaults \cup {"credentials@122"}

\* Lines 116-119 of the controller.
SaveFileMissing(bucket, destination_path) ==
    ~TruthyBucket(bucket) \/ ~TruthyName(destination_path)

\* SaveFileController.post; get_body_argument("upload") has no default and
\* raises when the argument is absent.
SaveFileController_post(s, form, fault) ==
    LET bucket           == form.bucket
        destination_path == form.path
        content          == IF form.contents.given THEN form.contents.val ELSE <<>>
    IN  IF ~form.upload.given THEN Http500(s, FALSE)
        ELSE IF SaveFileMissing(bucket, destination_path)
        THEN Http(s, 400, [error |-> "Missing required parameters."], FALSE)
        ELSE IF fault = "credentials@122" THEN Http500(s, FALSE)
        ELSE LET o == save_content(s, bucket.val, destination_path.val, Str(content),
                                   form.upload.val = "true", fault)
             IN  IF o.propagated THEN Http500(o.store, o.raised)
                 ELSE IF "error" \in DOMAIN o.result
                 THEN Http(o.store,
                           IF "status" \in DOMAIN o.result THEN o.result.status ELSE 500,
                           o.result, o.raised)
                 ELSE Http(o.store, 200, o.result, o.raised)

\* ---------------------------------------------- requests, call by call
\* The methods contain no await between their storage calls, so one server
\* process runs a request to its end; the bucket is shared with other server
\* processes.  `req` holds the request each process is serving, between two
\* of its storage calls: its arguments, its position and its locals.
ReqIds == {"r1", "r2"}

\* The arguments of the interleaved requests.
SaveKeys == {<<"a">>, <<"a", "/">>, <<"a", "/", "a">>}

DeletePaths == {<<>>, <<"a">>, <<"a", "/", "a">>}

RenameSources == {<<"a">>, <<"a", "/", "a">>}

RenameTargets == {<<"a">>, <<"a", "a">>}

\* Each process uploads a text of its own, so that the writer of a blob shows.
RaceText(i) == IF i = "r1" THEN <<>> ELSE <<"{", "}">>

NoRequest ==
    [op |-> "idle", pc |-> "idle", form |-> Absent, name |-> <<>>,
     new_name |-> <<>>, content |-> <<>>, uploadFlag |-> FALSE,
     blob |-> <<>>, blob_count |-> 0, isFile |-> TRUE,
     found |-> "unchecked", overwrote |-> FALSE, changed |-> FALSE,
     result |-> [pending |-> TRUE]]

\* The request goes on to its next storage call.
Goto(s, r, pc) == [store |-> s, req |-> [r EXCEPT !.pc = pc]]

\* The request returns; its locals end with it.
Return(s, r, result) ==
    [store |-> s,
     req |-> [r EXCEPT !.pc = "done", !.result = result, !.blob = <<>>,
                       !.blob_count = 0, !.isFile = TRUE]]

\* except Exception as e: return {"error": str(e), "status": 500}
Error500 == [error |-> "str(e)", status |-> 500]

\* Lines 127-132 of the controller: the status and the body of the response.
PostAnswer(result) ==
    IF "error" \in DOMAIN result
    THEN [status |-> IF "status" \in DOMAIN result THEN result.status ELSE 500,
          body |-> result]
    ELSE [status |-> 200, body |-> result]

\* Lines 110-119 of the controller.
SavePostStep(s, r) ==
    IF SaveFileMissing(Given(Bucket), r.form)
    THEN Return(s, r, [status |-> 400,
                       body |-> [error |-> "Missing required parameters."]])
    ELSE Goto(s, [r EXCEPT !.name = r.form.val], "exists@236")

\* Mutant: the content is written before the conflict is answered.
SaveExistsStep_WritesFirst(s, r) ==
    IF SaveConflict(s, r.name, r.uploadFlag)
    THEN Return(upload_from_string(s, r.name, r.content), r,
                PostAnswer([name |-> r.name, bucket |-> Bucket, exists |-> TRUE,
                            success |-> FALSE, error |-> "exists", status |-> 409]))
    ELSE Goto(s, [r EXCEPT !.found = "absent"], "upload@246")

\* Line 236: blob.exists(), then the test of the flag.
SaveExistsStep(s, r) ==
    IF SaveConflict(s, r.name, r.uploadFlag)
    THEN Return(s, [r EXCEPT !.found = "present"],
                PostAnswer([name |-> r.name, bucket |-> Bucket, exists |-> TRUE,
                            success |-> FALSE, error |-> "exists", status |-> 409]))
    ELSE Goto(s, [r EXCEPT !.found = IF exists(s, r.name) THEN "present"
                                     ELSE "absent"],
              "upload@246")

\* Mutant: the upload carries the precondition that the object does not exist
\* and raises when it does.
SaveUploadStep_IfAbsent(s, r) ==
    IF r.uploadFlag /\ exists(s, r.name)
    THEN Return(s, r, PostAnswer(Error500))
    ELSE Return(upload_from_string(s, r.name, r.content), r,
                PostAnswer([name |-> r.name, bucket |-> Bucket,
                            size |-> Len(r.content), contentType |-> "media",
                            success |-> TRUE]))

\* Lines 246-261: blob.upload_from_string, unconditional.
SaveUploadStep(s, r) ==
    Return(upload_from_string(s, r.name, r.content),
           [r EXCEPT !.overwrote = exists(s, r.name)],
           PostAnswer([name |-> r.name, bucket |-> Bucket,
                       size |-> Len(r.content), contentType |-> "media",
                       success |-> TRUE]))

\* Lines 282-293.
DeleteExistsStep(s, r) ==
    IF IsRoot(r.name)
    THEN Return(s, r, [error |-> "Deleting Bucket is not allowed.", status |-> 409])
    ELSE IF exists(s, r.name)
    THEN Goto(s, [r EXCEPT !.blob = r.name, !.found = "present"], "exists@316")
    ELSE Goto(s, [r EXCEPT !.blob = r.name, !.found = "absent"], "list@298")

\* Lines 295-313: the listing is fetched when the loop starts.
DeleteListStep(s, r) ==
    LET scan == DeleteScan(list_blobs(s, WithSlash(r.name)), r.name,
                           [blob |-> r.name, isFile |-> TRUE, blob_count |-> 0])
    IN  IF scan.blob_count > 0
        THEN Return(s, r, [error |-> "Non-Empty folder cannot be deleted.",
                           status |-> 409])
        ELSE Goto(s, [r EXCEPT !.blob = scan.blob, !.isFile = scan.isFile],
                  "exists@316")

\* Lines 316-319.
DeleteRecheckStep(s, r) ==
    IF exists(s, r.blob) THEN Goto(s, r, "delete@325")
    ELSE Goto(s, [r EXCEPT !.blob = WithSlash(r.name)], "exists@320")

\* Lines 320-321.
DeleteMarkerStep(s, r) ==
    IF exists(s, r.blob) THEN Goto(s, r, "delete@325")
    ELSE Return(s, r, [error |-> "File/Folder not found.", status |-> 404])

\* Lines 324-329: blob.delete() raises NotFound when the blob is gone.
DeleteBlobStep(s, r) ==
    IF exists(s, r.blob) THEN Return(delete(s, r.blob), r, [success |-> TRUE])
    ELSE Return(s, r, Error500)

\* Line 351.
RenameExistsStep(s, r) ==
    IF exists(s, r.name)
    THEN Goto(s, [r EXCEPT !.blob = r.name, !.found = "present"], "dest@380")
    ELSE Goto(s, [r EXCEPT !.blob = r.name, !.found = "absent"], "list@357")

\* Lines 354-366: the listing is fetched when the loop starts.
RenameListStep(s, r) ==
    LET scan == RenameScan(list_blobs(s, RenamePrefix(r.name)), r.name,
                           [blob |-> r.name, blob_count |-> 0])
    IN  Goto(s, [r EXCEPT !.blob = scan.blob, !.blob_count = scan.blob_count],
             "exists@367")

\* Lines 367-376.
RenameRecheckStep(s, r) ==
    IF RenameIsEmptyFolder(s, r, r.name)
    THEN Goto(s, [r EXCEPT !.isFile = FALSE], "dest@380")
    ELSE IF r.blob_count > 0
    THEN Return(s, r, [error |-> "Non-Empty folder cannot be renamed.",
                       status |-> 409])
    ELSE Return(s, r, [error |-> "{blob_name} not found", status |-> 404])

\* Lines 379-392.
RenameDestStep(s, r) ==
    IF RenameDestTaken(s, r.isFile, r.new_name)
    THEN Return(s, r, [error |-> "already exists in the destination.",
                       status |-> 409])
    ELSE Goto(s, r, "rename_blob.copy@396")

\* Lines 395-402, first call of Bucket.rename_blob: the copy, which raises
\* NotFound when the source is gone.
RenameCopyStep(s, r) ==
    LET target == RenameTarget(r.isFile, r.new_name)
        copied == upload_from_string(s, target, s[r.blob])
    IN  IF ~exists(s, r.blob) THEN Return(s, r, Error500)
        ELSE IF r.blob = target
        THEN Return(copied, r, RenameSuccess(Bucket, target))
        ELSE Goto(copied, r, "rename_blob.delete@396")

\* Second call of Bucket.rename_blob: the source is deleted.
RenameDeleteStep(s, r) ==
    IF exists(s, r.blob)
    THEN Return(delete(s, r.blob), r,
                RenameSuccess(Bucket, RenameTarget(r.isFile, r.new_name)))
    ELSE Return(s, r, Error500)

\* ------------------------------------------------------------------ actions
Fits(s) == Cardinality(DOMAIN s) <= MaxBlobs /\ DOMAIN s \subseteq Names

Idle == [call |-> [op |-> "idle"], result |-> [idle |-> TRUE], raised |-> FALSE,
         propagated |-> FALSE]

\* No request is being answered.
NoCall == last.call.op = "idle"

\* A request runs from its first to its last statement without interleaving;
\* `prev` keeps the store the request started from and `last` its arguments
\* and returned value, until the response is handed over.
Step(o, call) ==
    /\ Fits(o.store)
    /\ store' = o.store
    /\ updated' = Stamped(o.store)
    /\ prev' = store
    /\ UNCHANGED req
    /\ last' = [call |-> call, result |-> o.result, raised |-> o.raised,
                propagated |-> o.propagated]

\* A request of each kind, with its names drawn from N and the failing storage
\* call (if any) drawn from F.
SaveContentWith(N, F) ==
    /\ NoCall
    /\ \E name \in N, content \in ContentInputs, uploadFlag \in BOOLEAN,
          fault \in F :
           Step(save_content(store, Bucket, name, content, uploadFlag, fault),
                [op |-> "save_content", name |-> name, content |-> content,
                 uploadFlag |-> uploadFlag, fault |-> fault])

CreateFolderWith(N, F) ==
    /\ NoCall
    /\ \E path \in N \cup {<<>>}, folder_name \in N, fault \in F :
           Step(create_folder(store, Bucket, path, folder_name, fault),
                [op |-> "create_folder", path |-> path, folder_name |-> folder_name,
                 fault |-> fault])

DeleteFileWith(N, F) ==
    /\ NoCall
    /\ \E path \in N \cup {<<>>, <<"/">>}, fault \in F :
           Step(delete_file(store, Bucket, path, fault),
                [op |-> "delete_file", path |-> path, fault |-> fault])

RenameFileWith(N, F) ==
    /\ NoCall
    /\ \E blob_name \in N, new_name \in N, fault \in F :
           Step(rename_file(store, Bucket, blob_name, new_name, fault),
                [op |-> "rename_file", blob_name |-> blob_name, new_name |-> new_name,
                 fault |-> fault])

ListFilesWith(N, F) ==
    /\ NoCall
    /\ \E prefix \in N \cup {<<>>}, fault \in F :
           Step(list_files(store, updated, Bucket, prefix, fault),
                [op |-> "list_files", prefix |-> prefix, fault |-> fault])

GetFileWith(N, F) ==
    /\ NoCall
    /\ \E file_path \in N, format \in Formats, fault \in F :
           Step(get_file(store, Bucket, file_path, format, fault),
                [op |-> "get_file", file_path |-> file_path, format |-> format,
                 fault |-> fault])

DownloadFileWith(N, F) ==
    /\ NoCall
    /\ \E file_path \in N, fault \in F :
           Step(download_file(store, Bucket, file_path, file_path, "base64", fault),
                [op |-> "download_file", file_path |-> file_path, fault |-> fault])

ListBucketsWith(F) ==
    /\ NoCall
    /\ \E prefix \in BucketPrefixes, fault \in F :
           Step(list_buckets(store, prefix, fault),
                [op |-> "list_buckets", prefix |-> prefix, fault |-> fault])

\* An HTTP request handled by a controller.
HttpStep(o, call) ==
    /\ Fits(o.store)
    /\ store' = o.store
    /\ updated' = Stamped(o.store)
    /\ prev' = store
    /\ UNCHANGED req
    /\ last' = [call |-> call, result |-> o.result, raised |-> o.raised,
                propagated |-> o.propagated, status |-> o.status,
                responses |-> o.responses]

BucketParams == {Absent, Given(""), Given(Bucket)}

NameParams(N) == {Absent, Given(<<>>)} \cup {Given(n) : n \in N}

CreateFolderPost ==
    /\ NoCall
    /\ \E valid \in BOOLEAN, bucket \in BucketParams, path \in NameParams(FaultNames),
          folderName \in NameParams(FaultNames), fault \in CreateFolderPostFaults :
           HttpStep(CreateFolderController_post(store,
                        [valid |-> valid, bucket |-> bucket, path |-> path,
                         folderName |-> folderName], fault),
                    [op |-> "POST create_folder", valid |-> valid, bucket |-> bucket,
                     path |-> path, folderName |-> folderName, fault |-> fault])

SaveFilePost ==
    /\ NoCall
    /\ \E bucket \in BucketParams, path \in NameParams(FaultNames),
          contents \in {Absent} \cup {Given(t) : t \in Texts},
          upload \in {Absent, Given("true"), Given("false")},
          fault \in SaveFilePostFaults :
           HttpStep(SaveFileController_post(store,
                        [bucket |-> bucket, path |-> path, contents |-> contents,
                         upload |-> upload], fault),
                    [op |-> "POST save_file", bucket |-> bucket, path |-> path,
                     contents |-> contents, upload |-> upload, fault |-> fault])

\* Requests served by a storage provider whose calls all succeed.
SaveContent == SaveContentWith(Names, {NoFault})

CreateFolder == CreateFolderWith(Names, {NoFault})

DeleteFile == DeleteFileWith(Names, {NoFault})

RenameFile == RenameFileWith(Names, {NoFault})

ListFiles == ListFilesWith(Names, {NoFault})

GetFile == GetFileWith(Names, {NoFault})

DownloadFile == DownloadFileWith(Names, {NoFault})

\* Requests during which one storage call raises.
SaveContentFails == SaveContentWith(FaultNames, SaveFaults \ {NoFault})

CreateFolderFails == CreateFolderWith(FaultNames, CreateFaults \ {NoFault})

DeleteFileFails == DeleteFileWith(FaultNames, DeleteFaults \ {NoFault})

RenameFileFails == RenameFileWith(FaultNames, RenameFaults \ {NoFault})

ListFilesFails == ListFilesWith(FaultNames, ListFaults \ {NoFault})

GetFileFails == GetFileWith(FaultNames, GetFaults \ {NoFault})

ListBuckets == ListBucketsWith({NoFault})

ListBucketsFails == ListBucketsWith(ListBucketsFaults \ {NoFault})

DownloadFileFails == DownloadFileWith(FaultNames, DownloadFaults \ {NoFault})

\* The response is written and the request ends.
Respond ==
    /\ ~NoCall
    /\ last' = Idle
    /\ prev' = store
    /\ UNCHANGED <<store, updated, req>>

Init ==
    /\ store = EmptyStore
    /\ updated = EmptyStore
    /\ prev = EmptyStore
    /\ last = Idle
    /\ req = [i \in ReqIds |-> NoRequest]

Next ==
    \/ SaveContent
    \/ CreateFolder
    \/ DeleteFile
    \/ RenameFile
    \/ ListFiles
    \/ Respond

Spec == Init /\ [][Next]_vars

\* The same requests with a storage provider that may fail.
NextFaulty ==
    \/ Next
    \/ SaveContentFails
    \/ CreateFolderFails
    \/ DeleteFileFails
    \/ RenameFileFails
    \/ ListFilesFails
    \/ GetFile
    \/ DownloadFile
    \/ GetFileFails
    \/ DownloadFileFails
    \/ ListBuckets
    \/ ListBucketsFails
    \/ CreateFolderPost
    \/ SaveFilePost

SpecFaulty == Init /\ [][NextFaulty]_vars

\* Listing a bucket whose blobs carry any `updated` attribute, None included.
ListingNames == {<<"a", "/">>, <<"a", "/", "a">>, <<"a", "/", "a", "a">>, <<"a", "a">>}

ListingPrefixes == {<<>>, <<"a", "/">>}

InitListing ==
    /\ \E S \in SUBSET ListingNames :
           /\ Cardinality(S) <= MaxBlobs
           /\ store \in [S -> Texts]
           /\ updated \in [S -> TimesOrNone]
    /\ prev = store
    /\ last = Idle
    /\ req = [i \in ReqIds |-> NoRequest]

ListStamped ==
    /\ NoCall
    /\ \E prefix \in ListingPrefixes :
           LET o == list_files(store, updated, Bucket, prefix, NoFault)
           IN  /\ last' = [call |-> [op |-> "list_files", prefix |-> prefix,
                                     fault |-> NoFault],
                           result |-> o.result, raised |-> o.raised,
                           propagated |-> o.propagated]
               /\ prev' = store
               /\ UNCHANGED <<store, updated, req>>

NextListing ==
    \/ ListStamped
    \/ Respond

SpecListing == InitListing /\ [][NextListing]_vars

\* Two server processes on one bucket, interleaved at each storage call.
Serving(i, op, pc) == req[i].op = op /\ req[i].pc = pc

\* A request arrives at a process that serves none.
Begin(i, r) ==
    /\ Serving(i, "idle", "idle")
    /\ req' = [req EXCEPT ![i] = r]
    /\ UNCHANGED <<store, updated, prev, last>>

\* One storage call of the request of process i, with what follows it up to
\* the next call; `changed` records whether the call altered the bucket.
RaceStep(i, o) ==
    /\ Fits(o.store)
    /\ store' = o.store
    /\ updated' = Stamped(o.store)
    /\ req' = [req EXCEPT ![i] = [o.req EXCEPT !.changed = @ \/ o.store # store]]
    /\ UNCHANGED <<prev, last>>

BeginPost ==
    \E i \in ReqIds, form \in {Given(n) : n \in SaveKeys} \cup {Absent},
       upload \in {"true", "false"} :
        Begin(i, [NoRequest EXCEPT !.op = "save_content", !.pc = "post@111",
                                   !.form = form, !.content = RaceText(i),
                                   !.uploadFlag = (upload = "true")])

BeginDelete ==
    \E i \in ReqIds, path \in DeletePaths :
        Begin(i, [NoRequest EXCEPT !.op = "delete_file", !.pc = "exists@293",
                                   !.name = path])

BeginRename ==
    \E i \in ReqIds, blob_name \in RenameSources, new_name \in RenameTargets :
        Begin(i, [NoRequest EXCEPT !.op = "rename_file", !.pc = "exists@351",
                                   !.name = blob_name, !.new_name = new_name])

SavePost ==
    \E i \in ReqIds : /\ Serving(i, "save_content", "post@111")
                      /\ RaceStep(i, SavePostStep(store, req[i]))

SaveExists ==
    \E i \in ReqIds : /\ Serving(i, "save_content", "exists@236")
                      /\ RaceStep(i, SaveExistsStep(store, req[i]))

SaveUpload ==
    \E i \in ReqIds : /\ Serving(i, "save_content", "upload@246")
                      /\ RaceStep(i, SaveUploadStep(store, req[i]))

DeleteExists ==
    \E i \in ReqIds : /\ Serving(i, "delete_file", "exists@293")
                      /\ RaceStep(i, DeleteExistsStep(store, req[i]))

DeleteList ==
    \E i \in ReqIds : /\ Serving(i, "delete_file", "list@298")
                      /\ RaceStep(i, DeleteListStep(store, req[i]))

DeleteRecheck ==
    \E i \in ReqIds : /\ Serving(i, "delete_file", "exists@316")
                      /\ RaceStep(i, DeleteRecheckStep(store, req[i]))

DeleteMarker ==
    \E i \in ReqIds : /\ Serving(i, "delete_file", "exists@320")
                      /\ RaceStep(i, DeleteMarkerStep(store, req[i]))

DeleteCall ==
    \E i \in ReqIds : /\ Serving(i, "delete_file", "delete@325")
                      /\ RaceStep(i, DeleteBlobStep(store, req[i]))

RenameExists ==
    \E i \in ReqIds : /\ Serving(i, "rename_file", "exists@351")
                      /\ RaceStep(i, RenameExistsStep(store, req[i]))

RenameList ==
    \E i \in ReqIds : /\ Serving(i, "rename_file", "list@357")
                      /\ RaceStep(i, RenameListStep(store, req[i]))

RenameRecheck ==
    \E i \in ReqIds : /\ Serving(i, "rename_file", "exists@367")
                      /\ RaceStep(i, RenameRecheckStep(store, req[i]))

RenameDest ==
    \E i \in ReqIds : /\ Serving(i, "rename_file", "dest@380")
                      /\ RaceStep(i, RenameDestStep(store, req[i]))

RenameCopy ==
    \E i \in ReqIds : /\ Serving(i, "rename_file", "rename_blob.copy@396")
                      /\ RaceStep(i, RenameCopyStep(store, req[i]))

RenameDelete ==
    \E i \in ReqIds : /\ Serving(i, "rename_file", "rename_blob.delete@396")
                      /\ RaceStep(i, RenameDeleteStep(store, req[i]))

\* The response is handed over and the process is free again.
Finish ==
    \E i \in ReqIds :
        /\ req[i].pc = "done"
        /\ req' = [req EXCEPT ![i] = NoRequest]
        /\ UNCHANGED <<store, updated, prev, last>>

NextRace ==
    \/ BeginPost
    \/ BeginDelete
    \/ BeginRename
    \/ SavePost
    \/ SaveExists
    \/ SaveUpload
    \/ DeleteExists
    \/ DeleteList
    \/ DeleteRecheck
    \/ DeleteMarker
    \/ DeleteCall
    \/ RenameExists
    \/ RenameList
    \/ RenameRecheck
    \/ RenameDest
    \/ RenameCopy
    \/ RenameDelete
    \/ Finish

SpecRace == Init /\ [][NextRace]_vars

TypeOK ==
    /\ DOMAIN store \subseteq Names
    /\ \A k \in DOMAIN store : store[k] \in Texts

\* ------------------------------------------------- vocabulary of the claims
Called(op) == last.call.op = op

\* The last request met no failing storage call.
Clean == ~last.raised

HasStatus(r, n) == "status" \in DOMAIN r /\ r.status = n

Under(s, p) == {k \in DOMAIN s : StartsWith(k, p \o <<"/">>)}

IsFileAt(s, p) == p \in DOMAIN s

\* Some blob other than the marker p/ has a key beginning with p/.
NonEmptyFolder(s, p) == \E k \in Under(s, p) : k # p \o <<"/">>

\* Only the marker p/ lies under p/.
EmptyFolder(s, p) == Under(s, p) = {p \o <<"/">>}

\* Store t is store s with the single blob x removed.
Removed(s, t, x) ==
    /\ x \in DOMAIN s
    /\ DOMAIN t = DOMAIN s \ {x}
    /\ \A k \in DOMAIN t : t[k] = s[k]

\* Store t is store s with the single blob x moved to the free key y.
Moved(s, t, x, y) ==
    /\ x \in DOMAIN s
    /\ y \notin DOMAIN s
    /\ DOMAIN t = (DOMAIN s \ {x}) \cup {y}
    /\ t[y] = s[x]
    /\ \A k \in DOMAIN t \ {y} : t[k] = s[k]
    /\ Cardinality(DOMAIN t) = Cardinality(DOMAIN s)

\* Store t is store s with key x holding data d, whether or not x was there.
Written(s, t, x, d) ==
    /\ DOMAIN t = DOMAIN s \cup {x}
    /\ t[x] = d
    /\ \A k \in DOMAIN t \ {x} : t[k] = s[k]

\* ------------------------------------------------------------------- claims

\* C1: delete on a non-empty folder p (some blob other than the marker p/
\* lies under p/) returns 409 and leaves every blob unchanged, also when a
\* blob exists at the exact key p.
C1_DeleteNonEmptyFolderRejected ==
    (Called("delete_file") /\ Clean /\ NonEmptyFolder(prev, last.call.path))
        => (HasStatus(last.result, 409) /\ store = prev)

\* C2: save with uploadMode=true on a key that already holds a blob returns
\* 409 with success=false and changes no blob.
C2_UploadExistingConflict ==
    (Called("save_content") /\ Clean /\ last.call.uploadFlag
        /\ IsFileAt(prev, last.call.name))
        => /\ HasStatus(last.result, 409)
           /\ last.result.success = FALSE
           /\ store = prev

C2_Witness ==
    /\ Called("save_content") /\ Clean /\ last.call.uploadFlag
    /\ IsFileAt(prev, last.call.name)
    /\ last.call.content.kind = "str"
    /\ last.call.content.val # prev[last.call.name]
    /\ Cardinality(DOMAIN prev) > 1

\* C3: rename returns 409 and changes no blob when the destination has
\* content: for a source that is a file (a blob at sourceKey), a blob at
\* newKey; for a source that is an empty folder (no blob at sourceKey, only the
\* marker under sourceKey/), any blob under newKey/.  newKey = sourceKey
\* included.
C3_RenameDestinationTaken ==
    (Called("rename_file") /\ Clean
        /\ \/ IsFileAt(prev, last.call.blob_name) /\ IsFileAt(prev, last.call.new_name)
           \/ /\ ~IsFileAt(prev, last.call.blob_name)
              /\ EmptyFolder(prev, last.call.blob_name)
              /\ Under(prev, last.call.new_name) # {})
        => (HasStatus(last.result, 409) /\ store = prev)

C3_Witness ==
    /\ Called("rename_file") /\ Clean
    /\ ~IsFileAt(prev, last.call.blob_name)
    /\ EmptyFolder(prev, last.call.blob_name)
    /\ Under(prev, last.call.new_name) # {}
    /\ last.call.new_name # last.call.blob_name
    /\ ~IsFileAt(prev, last.call.new_name)
    /\ HasStatus(last.result, 409)

\* C4: rename of a sourceKey, given with or without a trailing "/", that names
\* a folder (not a file) with at least one non-marker child returns 409 and
\* changes no blob.
C4_RenameNonEmptyFolderRejected ==
    (Called("rename_file") /\ Clean
        /\ ~IsFileAt(prev, StripSlash(last.call.blob_name))
        /\ NonEmptyFolder(prev, StripSlash(last.call.blob_name)))
        => (HasStatus(last.result, 409) /\ store = prev)

\* C5: no path is at once a file (a blob at p) and a non-empty folder (a blob
\* other than the marker p/ under p/).
C5_NoFileAndNonEmptyFolder ==
    \A p \in Names : ~(IsFileAt(store, p) /\ NonEmptyFolder(store, p))

\* C6: createFolder leaves exactly one zero-byte marker at the computed path
\* and every other blob as it was, and a second call with the same arguments
\* yields the same store as the first.
C6_CreateFolderIdempotent ==
    (Called("create_folder") /\ Clean) =>
        LET p == IF last.call.path = <<>>
                 THEN last.call.folder_name \o <<"/">>
                 ELSE last.call.path \o <<"/">> \o last.call.folder_name \o <<"/">>
            again == create_folder(store, Bucket, last.call.path,
                                   last.call.folder_name, NoFault)
        IN  /\ Written(prev, store, p, <<>>)
            /\ last.result.name = p
            /\ DOMAIN again.store = DOMAIN store
            /\ again.store = store
            /\ again.result = last.result

C6_Witness ==
    /\ Called("create_folder") /\ Clean
    /\ last.result.name \in DOMAIN prev
    /\ store = prev
    /\ last.call.path # <<>>

\* C7: save with uploadMode=false writes the given content at the key and
\* returns success=true whether or not the key held a blob; every other blob
\* is unchanged.
C7_SaveOverwrites ==
    (Called("save_content") /\ Clean /\ ~last.call.uploadFlag) =>
        LET text == IF last.call.content.kind = "dict"
                    THEN <<"{">> \o last.call.content.val \o <<"}">>
                    ELSE last.call.content.val
        IN  /\ Written(prev, store, last.call.name, text)
            /\ last.result.success = TRUE
            /\ last.result.name = last.call.name
            /\ last.result.size = Len(text)
            /\ "status" \notin DOMAIN last.result

C7_Witness ==
    /\ Called("save_content") /\ Clean /\ ~last.call.uploadFlag
    /\ IsFileAt(prev, last.call.name)
    /\ store[last.call.name] # prev[last.call.name]
    /\ Cardinality(DOMAIN prev) > 1

\* C8: the "files" of list(prefix) are exactly the blobs directly under the
\* prefix other than the zero-byte blob whose key is the prefix itself; every
\* key with a deeper segment is reported only through its common prefix.
C8_ListFilesAndFolders ==
    (Called("list_files") /\ Clean) =>
        LET prefix == last.call.prefix
            n      == Len(prefix)
            files  == last.result.files
            names  == {files[i].name : i \in 1..Len(files)}
            folders == {f.name : f \in last.result.prefixes}
            direct == {k \in DOMAIN prev :
                          /\ StartsWith(k, prefix)
                          /\ \A i \in (n + 1)..Len(k) : k[i] # "/"}
            deeper == {k \in DOMAIN prev :
                          /\ StartsWith(k, prefix)
                          /\ \E i \in (n + 1)..Len(k) : k[i] = "/"}
        IN  /\ names = {k \in direct : ~(k = prefix /\ prev[k] = <<>>)}
            /\ Cardinality(names) = Len(files)
            /\ \A i \in 1..Len(files) : files[i].size = Len(prev[files[i].name])
            /\ \A k \in deeper :
                   /\ k \notin names
                   /\ \E f \in folders : StartsWith(k, f)
            /\ Cardinality(folders) = Cardinality(last.result.prefixes)
            /\ \A f \in folders :
                   /\ StartsWith(f, prefix)
                   /\ Len(f) > n
                   /\ f[Len(f)] = "/"
                   /\ \A i \in (n + 1)..(Len(f) - 1) : f[i] # "/"
                   /\ \E k \in deeper : StartsWith(k, f)
            /\ store = prev

\* The folder a/ holds its own zero-byte marker and the sub-folder a/a/: the
\* marker is left out of "files" and the sub-folder is reported as a prefix.
C8_Witness ==
    /\ Called("list_files") /\ Clean
    /\ last.call.prefix = <<"a", "/">>
    /\ DOMAIN prev = {<<"a", "/">>, <<"a", "/", "a", "/">>}
    /\ prev[<<"a", "/">>] = <<>>
    /\ last.result.files = <<>>
    /\ {f.name : f \in last.result.prefixes} = {<<"a", "/", "a", "/">>}

\* C9: delete of a path that is a file removes the blob at the path; of a path
\* that is an empty folder (no blob at the path, only the marker under it)
\* removes the marker; both return {success: true} and change nothing else.
\* A path with no blob, no marker and nothing under it gives 404 and no
\* change.  (Paths other than the root.)
C9_DeleteSingleBlob ==
    (Called("delete_file") /\ Clean /\ ~IsRoot(last.call.path)) =>
        LET p == last.call.path IN
        /\ IsFileAt(prev, p) =>
               Removed(prev, store, p) /\ last.result = [success |-> TRUE]
        /\ (~IsFileAt(prev, p) /\ EmptyFolder(prev, p)) =>
               Removed(prev, store, p \o <<"/">>) /\ last.result = [success |-> TRUE]
        /\ (~IsFileAt(prev, p) /\ Under(prev, p) = {}) =>
               HasStatus(last.result, 404) /\ store = prev

C9_Witness ==
    /\ Called("delete_file") /\ Clean
    /\ ~IsFileAt(prev, last.call.path)
    /\ EmptyFolder(prev, last.call.path)
    /\ Cardinality(DOMAIN prev) > 1
    /\ last.result = [success |-> TRUE]

\* C10: a successful rename moves exactly one blob: the blob at sourceKey to
\* newKey for a file, the marker sourceKey/ to newKey/ for an empty folder;
\* every other blob is unchanged and the number of blobs is preserved.
C10_RenameMovesOneBlob ==
    (Called("rename_file") /\ Clean /\ HasStatus(last.result, 200)) =>
        LET src == last.call.blob_name
            new == last.call.new_name
        IN  /\ last.result.success = TRUE
            /\ IF IsFileAt(prev, src)
               THEN Moved(prev, store, src, new)
               ELSE /\ EmptyFolder(prev, src)
                    /\ Moved(prev, store, src \o <<"/">>, new \o <<"/">>)

C10_Witness ==
    /\ Called("rename_file") /\ Clean /\ HasStatus(last.result, 200)
    /\ ~IsFileAt(prev, last.call.blob_name)
    /\ Cardinality(DOMAIN prev) > 1
    /\ store # prev

\* C11: delete of the path "" or "/" returns 409 "Deleting Bucket is not
\* allowed." whatever the store holds and whichever storage call is set to
\* fail: no existence check, listing or deletion is reached, and the store is
\* unchanged.
C11_DeleteRootRejected ==
    (Called("delete_file")
        /\ (last.call.path = <<>> \/ last.call.path = <<"/">>))
        => /\ last.result = [error |-> "Deleting Bucket is not allowed.",
                             status |-> 409]
           /\ ~last.raised
           /\ ~last.propagated
           /\ store = prev

C11_Witness ==
    /\ Called("delete_file")
    /\ last.call.path = <<"/">>
    /\ last.call.fault = "exists@293"
    /\ Cardinality(DOMAIN prev) = MaxBlobs
    /\ HasStatus(last.result, 409)

\* C12: when a storage call made by list or read fails (reading a key that
\* does not exist included) the method returns the empty result [], which
\* holds no file and no folder entry, lets no exception out and leaves the
\* store unchanged.
C12_ListReadFailureEmpty ==
    ((Called("list_files") \/ Called("get_file")) /\ last.raised)
        => /\ last.result = <<>>
           /\ ~last.propagated
           /\ store = prev

\* The second listing of list_files fails after the first one returned a
\* file and a folder: nothing of the first listing is returned.
C12_Witness ==
    /\ Called("list_files") /\ last.raised
    /\ last.call.fault = "list@96"
    /\ list_blobs_items(prev, last.call.prefix) # <<>>
    /\ list_blobs_prefixes(prev, last.call.prefix) # {}
    /\ last.result = <<>>

\* C13: a create-folder request that lacks one of bucket, path, folderName and
\* a save request that lacks one of bucket, path, contents, upload is answered
\* with HTTP 400 and the store is unchanged.
C13_MissingParameter400 ==
    /\ (Called("POST create_folder") /\ last.call.valid
          /\ (~last.call.bucket.given \/ ~last.call.path.given
                \/ ~last.call.folderName.given))
          => (last.status = 400 /\ store = prev)
    /\ (Called("POST save_file")
          /\ (~last.call.bucket.given \/ ~last.call.path.given
                \/ ~last.call.contents.given \/ ~last.call.upload.given))
          => (last.status = 400 /\ store = prev)

\* C14: a create-folder request whose storage write fails is answered with
\* HTTP 500 and an error body.
C14_CreateFolderFailure500 ==
    (Called("POST create_folder") /\ last.raised)
        => (last.status = 500 /\ "error" \in DOMAIN last.result)

\* C15: whichever storage call fails, and at whichever step, the operation
\* ends by returning a value (the empty result [] or a payload with an "error"
\* entry), no exception leaves it, and a request handled by a controller ends
\* with exactly one response.
C15_FailuresTrapped ==
    ~Called("idle") =>
        /\ ~last.propagated
        /\ last.raised => (last.result = <<>> \/ "error" \in DOMAIN last.result)
        /\ (Called("POST create_folder") \/ Called("POST save_file"))
               => (last.responses = 1 /\ last.status \in {200, 400, 409, 500})

\* The deletion inside rename_blob fails after the copy was made: the store
\* has changed and the method still returns the 500 payload.
C15_Witness ==
    /\ Called("rename_file") /\ last.raised
    /\ last.call.fault = "rename_blob.delete@396"
    /\ store # prev
    /\ HasStatus(last.result, 500)

\* How delete_file classifies path p in store s: missing, a non-empty folder,
\* or the single blob it removes.
DeleteClass(s, p) ==
    LET o == delete_file(s, Bucket, p, NoFault) IN
    IF HasStatus(o.result, 404) THEN <<"missing">>
    ELSE IF HasStatus(o.result, 409) THEN <<"non-empty folder">>
    ELSE <<"acts on", DOMAIN s \ DOMAIN o.store>>

\* How rename_file classifies path p in store s, for the destination n.
RenameClass(s, p, n) ==
    LET o == rename_file(s, Bucket, p, n, NoFault) IN
    IF HasStatus(o.result, 404) THEN <<"missing">>
    ELSE IF HasStatus(o.result, 409) THEN <<"non-empty folder">>
    ELSE <<"acts on", DOMAIN s \ DOMAIN o.store>>

\* Nothing lies at n or under n/.
FreeDestination(s, n) == ~IsFileAt(s, n) /\ Under(s, n) = {}

\* C17: for every store and every path p, with or without a trailing "/",
\* delete(p) and rename(p, n) with a free destination n classify p alike:
\* both 404, both 409, or both act on the same single blob.
C17_SameClassification ==
    NoCall =>
        \A p \in Names, n \in Names :
            (n # p /\ FreeDestination(store, n))
                => DeleteClass(store, p) = RenameClass(store, p, n)

\* C19 as stated: every successful rename, of a file or of an empty folder,
\* returns success=true, status=200, the container and name = newKey as passed.
C19_RenameReturnsNewKey ==
    (Called("rename_file") /\ Clean /\ "error" \notin DOMAIN last.result)
        => last.result = [name |-> last.call.new_name, bucket |-> Bucket,
                          success |-> TRUE, status |-> 200]

\* C19, amended: every successful rename returns success=true, status=200, the
\* container and the key of the renamed blob as name: newKey for a file,
\* newKey + "/" for an empty folder.
C19_RenameReturnsBlobName ==
    (Called("rename_file") /\ Clean /\ "error" \notin DOMAIN last.result)
        => /\ last.result =
                  [name |-> IF IsFileAt(prev, last.call.blob_name)
                            THEN last.call.new_name
                            ELSE last.call.new_name \o <<"/">>,
                   bucket |-> Bucket, success |-> TRUE, status |-> 200]
           /\ last.result.name \in DOMAIN store
           /\ last.result.name \notin DOMAIN prev

C19_Witness ==
    /\ Called("rename_file") /\ Clean /\ "error" \notin DOMAIN last.result
    /\ ~IsFileAt(prev, last.call.blob_name)
    /\ last.result.name = last.call.new_name \o <<"/">>
    /\ prev[last.call.blob_name \o <<"/">>] = <<>>

\* The latest `updated` among the blobs of s whose key begins with the common
\* prefix f, as an ISO string; empty when none of them has one.
LatestUnder(s, u, f) ==
    LET T == {u[k].t : k \in {n \in DOMAIN s : StartsWith(n, f) /\ u[n].set}}
    IN  IF T = {} THEN <<>>
        ELSE isoformat(At(CHOOSE t \in T : \A x \in T : x <= t))

\* C18: for every store and prefix, a listing returns each common prefix as a
\* folder entry whose updatedAt is the most recent `updated` among the blobs
\* nested under it, whatever the order of the blobs and also when some of them
\* have no `updated`; it is empty only when none has one.
C18_FolderUpdatedAt ==
    (Called("list_files") /\ last.call.fault = NoFault) =>
        /\ Clean
        /\ \A f \in list_blobs_prefixes(store, last.call.prefix) :
               [name |-> f, updatedAt |-> LatestUnder(store, updated, f)]
                   \in last.result.prefixes

\* Process i has answered an upload whose existence check found no blob.
UploadedUnseen(i) ==
    /\ Serving(i, "save_content", "done")
    /\ req[i].uploadFlag
    /\ req[i].found = "absent"

\* C16: nothing ties the write to the existence check that preceded it.  The
\* upload of a request that passed its check succeeds and installs its
\* content whether or not another request has written the key since, so two
\* interleaved uploads of one absent key both return success and the later
\* write replaces the earlier one.
C16_UploadRaceBothSucceed ==
    [][\A i \in ReqIds :
          (Serving(i, "save_content", "upload@246") /\ req'[i].pc = "done") =>
              /\ req'[i].result.status = 200
              /\ req'[i].result.body.success
              /\ req'[i].name \in DOMAIN store'
              /\ store'[req'[i].name] = req[i].content]_vars

C16_Witness ==
    /\ UploadedUnseen("r1") /\ UploadedUnseen("r2")
    /\ req["r1"].name = req["r2"].name
    /\ req["r1"].content # req["r2"].content
    /\ req["r1"].result.body.success /\ req["r2"].result.body.success
    /\ ~req["r1"].overwrote /\ req["r2"].overwrote
    /\ store[req["r2"].name] = req["r2"].content

\* C20: a request answered 400, 404 or 409 has changed neither the set of
\* blobs nor any content, whatever the other process did meanwhile.
C20_RejectedLeavesStore ==
    \A i \in ReqIds :
        (/\ req[i].pc = "done"
         /\ \/ HasStatus(req[i].result, 400)
            \/ HasStatus(req[i].result, 404)
            \/ HasStatus(req[i].result, 409)) => ~req[i].changed

\* A conflict answered to process r1 after the other process wrote the key
\* that r1 is asked to upload.
C20_Witness ==
    /\ Serving("r1", "save_content", "done")
    /\ HasStatus(req["r1"].result, 409)
    /\ Serving("r2", "save_content", "done")
    /\ req["r2"].changed
    /\ req["r2"].name = req["r1"].name

ReadOnly ==
    Called("list_buckets") \/ Called("list_files") \/ Called("get_file")
        \/ Called("download_file")

\* C21: list_buckets, list, read and download never change the store.  After
\* any of them, successful or failed and for any arguments, the keys and the
\* content of every blob are those the request found, and so are the
\* timestamps (all server-stamped in this specification).
C21_ReadsLeaveStore ==
    ReadOnly => (store = prev /\ updated = Stamped(prev))

\* A download that fetched the bytes of an existing blob.
C21_Witness ==
    /\ Called("download_file") /\ Clean
    /\ last.call.file_path \in DOMAIN prev
    /\ last.result = Bytes(prev[last.call.file_path])

====
